---- MODULE Spec2Model ----
(***************************************************************************)
(* Model of server.js: the Spotify credential cache                        *)
(* (getSpotifyAccessToken), the search helper (searchTrackOnSpotify) and   *)
(* the four search-backed endpoints (/spotify/therapy, /spotify/nostalgia, *)
(* /spotify/vibe, /spotify/bydj).                                          *)
(*                                                                         *)
(* Node runs the handlers on one thread: a handler runs without            *)
(* interruption up to its next await on a network call, so every action    *)
(* below is one such run-to-await segment, and the network calls in        *)
(* flight (axios.post, axios.get) settle in any order.                     *)
(***************************************************************************)
EXTENDS Integers, Sequences, FiniteSets, TLC

(***************************************************************************)
(* Bounds of the model.                                                    *)
(***************************************************************************)
MaxCalls == 7          \* getSpotifyAccessToken() invocations in one run
MaxEnvCalls == 3       \* of which made by callers other than the endpoints
MaxClock == 2000       \* Date.now() stops advancing past this value
MaxLifetime == 2       \* largest expires_in (seconds) the token service returns
NumReqs == 2           \* HTTP requests in one run
MaxPage == 20          \* items the catalog holds for a query

(***************************************************************************)
(* Program constants.                                                      *)
(***************************************************************************)
MsPerSec == 1000       \* expires_in * 1000
NumStages == 3         \* stage1, stage2, stage3 of /spotify/therapy
NumSlots == 2 * NumStages  \* searches one request can make: a primary and a fallback per stage
StageLimit == 8        \* searchTrackOnSpotify(q + suffix, 8)
StageCap == 6          \* r.slice(0, 6)
NostalgiaLimit == 20   \* searchTrackOnSpotify(query, 20)
NostalgiaFallbackLimit == 16  \* searchTrackOnSpotify("nostalgic retro throwback", 16)
VibeLimit == 18        \* searchTrackOnSpotify(q, 18), and the fallback's
FlatCap == 12          \* results.slice(0, 12), unique.slice(0, 12)
MaxFanOut == 4         \* .slice(0, 4)
FanOutLimit == 12      \* searchTrackOnSpotify(q, 12)
BydjFallbackLimit == 20  \* searchTrackOnSpotify('nostalgic mellow mix', 20)

Null == "<null>"       \* the JavaScript null / undefined

NonString == "<non-string>"  \* a JSON value that is not a string

Bullet == "*"          \* the character U+2022, which a TLA+ string cannot hold

FallbackMarker == " (fallback)"

(* JavaScript truthiness of a string-or-null value: null, undefined and   *)
(* the empty string are falsy.                                             *)
Truthy(v) == v # Null /\ v # ""


(***************************************************************************)
(* JavaScript string functions, computed character by character.           *)
(***************************************************************************)
UpperChars == "ABCDEFGHIJKLMNOPQRSTUVWXYZ"
LowerChars == "abcdefghijklmnopqrstuvwxyz"

CharAt(s, i) == SubSeq(s, i, i)

IsWhite(ch) == ch = " " \/ ch = "\t"

(* The lower-case letter of each upper-case letter.                        *)
LowerOf ==
  [ch \in {CharAt(UpperChars, i) : i \in 1..Len(UpperChars)} |->
     CharAt(LowerChars,
            CHOOSE i \in 1..Len(UpperChars) : CharAt(UpperChars, i) = ch)]

LowerChar(ch) == IF ch \in DOMAIN LowerOf THEN LowerOf[ch] ELSE ch

(* String.prototype.toLowerCase, from the i-th character on.               *)
RECURSIVE LowerFrom(_, _)
LowerFrom(s, i) ==
  IF i > Len(s) THEN "" ELSE LowerChar(CharAt(s, i)) \o LowerFrom(s, i + 1)

(* String.prototype.toLowerCase                                            *)
ToLowerCase(s) == LowerFrom(s, 1)

(* The first index from i upwards, and the last one from i downwards, of   *)
(* a character of s that is not white space.                               *)
RECURSIVE FirstInk(_, _)
FirstInk(s, i) ==
  IF i > Len(s) \/ ~IsWhite(CharAt(s, i)) THEN i ELSE FirstInk(s, i + 1)

RECURSIVE LastInk(_, _)
LastInk(s, i) ==
  IF i < 1 \/ ~IsWhite(CharAt(s, i)) THEN i ELSE LastInk(s, i - 1)

(* String.prototype.trim                                                   *)
Trim(s) ==
  IF FirstInk(s, 1) > Len(s) THEN ""
  ELSE SubSeq(s, FirstInk(s, 1), LastInk(s, Len(s)))

RECURSIVE ReplaceUnderscoreDash(_)
(* s.replace(/[_-]/g, " ")                                                 *)
ReplaceUnderscoreDash(s) ==
  IF Len(s) = 0 THEN ""
  ELSE (IF CharAt(s, 1) = "_" \/ CharAt(s, 1) = "-" THEN " " ELSE CharAt(s, 1))
       \o ReplaceUnderscoreDash(SubSeq(s, 2, Len(s)))

RECURSIVE Join(_, _)
(* Array.prototype.join                                                    *)
Join(parts, sep) ==
  IF Len(parts) = 0 THEN ""
  ELSE IF Len(parts) = 1 THEN parts[1]
  ELSE parts[1] \o sep \o Join(Tail(parts), sep)

(* Array.prototype.slice(0, n)                                             *)
Slice(seq, n) == SubSeq(seq, 1, IF Len(seq) < n THEN Len(seq) ELSE n)

(* v || d                                                                  *)
OrElse(v, d) == IF Truthy(v) THEN v ELSE d

(***************************************************************************)
(* The catalog behind api.spotify.com/v1/search.  A raw hit exposes name,  *)
(* artists and external_urls.spotify; the lists below are the item lists   *)
(* the backend may hold for a query, of which it returns the first limit.  *)
(***************************************************************************)
Hit(name, artists, url) == [name |-> name, artists |-> artists, url |-> url]

SongHit(i) ==
  Hit("Song " \o CharAt(UpperChars, i),
      <<"Artist " \o CharAt(LowerChars, i)>>,
      "track/" \o CharAt(LowerChars, i))

NoHits == <<>>

(* The titles of the deduplication example: "Song A", "song a ", "Song B". *)
ExampleHits ==
  <<Hit("Song A", <<"Ann", "Bob">>, "track/1"),
    Hit("song a ", <<"Cy">>, "track/2"),
    Hit("Song B", <<"Ann">>, "track/3")>>

(* Hits whose name is empty, blank or missing.                             *)
BlankHits ==
  <<Hit("", <<"Ann">>, "track/4"),
    Hit(" \t ", <<"Bob">>, "track/5"),
    Hit(Null, <<>>, "track/6")>>

(* MaxPage different songs, "Song A" first.                                *)
LongHits == [i \in 1..MaxPage |-> SongHit(i)]

(* The same songs from the last one down, with a blank and a repeat.       *)
MixedHits ==
  <<SongHit(MaxPage), Hit("  ", <<"Cy">>, "track/7"), SongHit(MaxPage)>>
  \o [i \in 1..(MaxPage \div 2) |-> SongHit(MaxPage - i)]

Catalog == {NoHits, ExampleHits, BlankHits, LongHits, MixedHits}

(* The titles the catalog can give a track.                                *)
CatalogTitles ==
  UNION {{items[i].name : i \in 1..Len(items)} : items \in Catalog}


(* res.data.tracks.items.map(...), lines 65-69                             *)
MapTracks(items) ==
  [i \in 1..Len(items) |->
     [title |-> items[i].name,
      artist |-> Join(items[i].artists, ", "),
      url |-> items[i].url]]

VARIABLES
  spotifyAccessToken,     \* let spotifyAccessToken = null
  spotifyTokenExpiresAt,  \* let spotifyTokenExpiresAt = 0
  clock,                  \* the value Date.now() returns
  numExchanges,           \* POSTs sent to accounts.spotify.com/api/token
  writes,                 \* assignments made to the cached pair
  nextCall,               \* next free index of call
  call,                   \* the invocations of getSpotifyAccessToken()
  task,                   \* the invocations of searchTrackOnSpotify()
  req                     \* the HTTP requests and their handlers

authVars == <<spotifyAccessToken, spotifyTokenExpiresAt, clock, numExchanges,
              writes, nextCall, call>>

vars == <<spotifyAccessToken, spotifyTokenExpiresAt, clock, numExchanges,
          writes, nextCall, call, task, req>>

CallIds == 1..MaxCalls

Lifetimes == 1..MaxLifetime

Reqs == 1..NumReqs

Slots == 1..NumSlots

TaskIds == Reqs \X Slots

(* A caller of getSpotifyAccessToken() other than a search of a request.   *)
EnvOwner == <<0, 0>>

(* Date.now() advances by about a second between two events: exactly, or  *)
(* one millisecond less.                                                   *)
TickSteps == {MsPerSec - 1, MsPerSec}

(* access_token of the response to the x-th exchange.                      *)
AccessToken(x) == "token-" \o ToString(x)

(* CacheHit with the comparison the wrong way round.                       *)
CacheHitInverted(tok, now, exp) == Truthy(tok) /\ now > exp

(* if (spotifyAccessToken && now < spotifyTokenExpiresAt)                  *)
CacheHit(tok, now, exp) == Truthy(tok) /\ now < exp

(* NewExpiresAt without the conversion of seconds to milliseconds.         *)
NewExpiresAtSeconds(now, expires_in) == now + expires_in

(* spotifyTokenExpiresAt = now + res.data.expires_in * 1000                *)
NewExpiresAt(now, expires_in) == now + expires_in * MsPerSec

IdleCall ==
  [pc |-> "idle", owner |-> EnvOwner, now |-> 0, hit |-> FALSE, xid |-> 0,
   expires_in |-> 0, token |-> Null, after |-> {}, seenWrites |-> 0,
   seenToken |-> Null, seenExp |-> 0, retClock |-> 0, retWrites |-> 0]

IdleTask ==
  [pc |-> "idle", query |-> "", limit |-> 0, call |-> 0, token |-> Null,
   items |-> <<>>, value |-> <<>>]

(* The fields of a request body; Null where the body has no such field.   *)
NoBody ==
  [mood |-> Null, language |-> Null, mode |-> Null, year |-> Null,
   prompt |-> Null, vibe |-> Null]

NoResponse == [status |-> 0]

IdleReq ==
  [pc |-> "idle", kind |-> Null, body |-> NoBody, suffix |-> "",
   queries |-> <<>>, label |-> "", stage |-> 0, stages |-> <<>>,
   combined |-> <<>>, awaiting |-> {}, response |-> NoResponse, sent |-> 0]

(* The calls that have returned a token to their caller.                   *)
Returned == {c \in CallIds : call[c].pc = "returned"}

(***************************************************************************)
(* getSpotifyAccessToken(), lines 21-39: up to its return (cache hit) or   *)
(* up to the await on axios.post (cache miss).  owners lists the callers   *)
(* that invoke it one after the other within one run-to-await segment (a   *)
(* single caller, or the searches that queries.map starts at line 252);    *)
(* the calls take the indexes nextCall, nextCall + 1, ...                  *)
(***************************************************************************)
GetTokenCalls(owners) ==
  LET k == Len(owners)
      hit == CacheHit(spotifyAccessToken, clock, spotifyTokenExpiresAt)
      new == nextCall..(nextCall + k - 1)
      rec(c) ==
        LET base == [IdleCall EXCEPT
                       !.owner = owners[c - nextCall + 1], !.now = clock,
                       !.after = Returned \cup
                                 (IF hit THEN nextCall..(c - 1) ELSE {}),
                       !.seenWrites = writes,
                       !.seenToken = spotifyAccessToken,
                       !.seenExp = spotifyTokenExpiresAt]
        IN IF hit
           THEN [base EXCEPT !.pc = "returned", !.hit = TRUE,
                             !.token = spotifyAccessToken,
                             !.retClock = clock, !.retWrites = writes]
           ELSE [base EXCEPT !.pc = "exchange",
                             !.xid = numExchanges + (c - nextCall + 1)]
  IN /\ nextCall + k - 1 <= MaxCalls
     /\ nextCall' = nextCall + k
     /\ call' = [c \in CallIds |-> IF c \in new THEN rec(c) ELSE call[c]]
     /\ numExchanges' = IF hit THEN numExchanges ELSE numExchanges + k
     /\ UNCHANGED <<spotifyAccessToken, spotifyTokenExpiresAt, clock, writes>>

(* ExchangeDone that keeps a token another call has cached in the          *)
(* meantime, and returns that one (first writer wins).                     *)
ExchangeDoneKeepsFirst(c, expires_in) ==
  LET keep == CacheHit(spotifyAccessToken, clock, spotifyTokenExpiresAt)
  IN /\ call[c].pc = "exchange"
     /\ spotifyAccessToken' =
          IF keep THEN spotifyAccessToken ELSE AccessToken(call[c].xid)
     /\ spotifyTokenExpiresAt' =
          IF keep THEN spotifyTokenExpiresAt
          ELSE NewExpiresAt(call[c].now, expires_in)
     /\ writes' = IF keep THEN writes ELSE writes + 1
     /\ call' = [call EXCEPT ![c].pc = "returned",
                             ![c].expires_in = expires_in,
                             ![c].token = spotifyAccessToken',
                             ![c].retClock = clock,
                             ![c].retWrites = writes']
     /\ UNCHANGED <<clock, numExchanges, nextCall>>

(* The response to the exchange of call c arrives: lines 41-44.            *)
ExchangeDone(c, expires_in) ==
  /\ call[c].pc = "exchange"
  /\ spotifyAccessToken' = AccessToken(call[c].xid)
  /\ spotifyTokenExpiresAt' = NewExpiresAt(call[c].now, expires_in)
  /\ writes' = writes + 1
  /\ call' = [call EXCEPT ![c].pc = "returned",
                          ![c].expires_in = expires_in,
                          ![c].token = spotifyAccessToken',
                          ![c].retClock = clock,
                          ![c].retWrites = writes']
  /\ UNCHANGED <<clock, numExchanges, nextCall>>

(* ExchangeFailed that also drops the cached token.                        *)
ExchangeFailedClears(c) ==
  /\ call[c].pc = "exchange"
  /\ call' = [call EXCEPT ![c].pc = "failed", ![c].retClock = clock,
                          ![c].retWrites = writes]
  /\ spotifyAccessToken' = Null
  /\ spotifyTokenExpiresAt' = 0
  /\ UNCHANGED <<clock, numExchanges, writes, nextCall>>

(* axios.post rejects (bad credentials, transport failure): the await at   *)
(* line 30 throws and getSpotifyAccessToken() rejects without touching the *)
(* cache.                                                                  *)
ExchangeFailed(c) ==
  /\ call[c].pc = "exchange"
  /\ call' = [call EXCEPT ![c].pc = "failed", ![c].retClock = clock,
                          ![c].retWrites = writes]
  /\ UNCHANGED <<spotifyAccessToken, spotifyTokenExpiresAt, clock,
                 numExchanges, writes, nextCall>>

(***************************************************************************)
(* searchTrackOnSpotify(query, limit), lines 57-70.                        *)
(***************************************************************************)
Settled(t) == task[t].pc \in {"fulfilled", "rejected"}

(* The handler of request r waits on searches that have all settled: its   *)
(* continuation is queued as a microtask.                                  *)
Pending(r) ==
  /\ req[r].pc \in {"primary", "fallback", "fanout"}
  /\ \A s \in req[r].awaiting : Settled(<<r, s>>)

(* Quiet of a server that takes up nothing new while a request is being    *)
(* handled.                                                                *)
QuietOneAtATime == \A r \in Reqs : req[r].pc \in {"idle", "done"}

(* The microtask queue is empty.  Node runs queued continuations before    *)
(* it handles the next network event or timer.                             *)
Quiet == \A r \in Reqs : ~Pending(r)

(* Request r calls searchTrackOnSpotify(qs[i], limit) for each i, one      *)
(* after the other, as the searches slots[i]: each runs line 58 up to the  *)
(* await inside getSpotifyAccessToken() or, on a cache hit, on to the      *)
(* axios.get of line 60.                                                   *)
Launch(r, slots, qs, limit) ==
  LET hit == CacheHit(spotifyAccessToken, clock, spotifyTokenExpiresAt)
      idx(s) == CHOOSE i \in 1..Len(slots) : slots[i] = s
      started(t) == t[1] = r /\ \E i \in 1..Len(slots) : slots[i] = t[2]
  IN /\ GetTokenCalls([i \in 1..Len(slots) |-> <<r, slots[i]>>])
     /\ task' = [t \in TaskIds |->
          IF started(t)
          THEN [pc |-> IF hit THEN "search" ELSE "token",
                query |-> qs[idx(t[2])],
                limit |-> limit,
                call |-> nextCall + idx(t[2]) - 1,
                token |-> IF hit THEN spotifyAccessToken ELSE Null,
                items |-> <<>>,
                value |-> <<>>]
          ELSE task[t]]

(* ExchangeOk that counts the lifetime from the arrival of the response    *)
(* and adds a second of grace.                                             *)
ExchangeOkWithGrace(c, expires_in) ==
  /\ Quiet
  /\ call[c].pc = "exchange"
  /\ spotifyAccessToken' = AccessToken(call[c].xid)
  /\ spotifyTokenExpiresAt' = NewExpiresAt(clock, expires_in) + MsPerSec
  /\ writes' = writes + 1
  /\ call' = [call EXCEPT ![c].pc = "returned",
                          ![c].expires_in = expires_in,
                          ![c].token = spotifyAccessToken',
                          ![c].retClock = clock,
                          ![c].retWrites = writes']
  /\ task' = IF call[c].owner = EnvOwner THEN task
             ELSE [task EXCEPT ![call[c].owner].pc = "search",
                               ![call[c].owner].token = call'[c].token]
  /\ UNCHANGED <<clock, numExchanges, nextCall, req>>

(* The token service answers the exchange of call c; the search that      *)
(* awaits the token goes on to line 60.                                    *)
ExchangeOk(c, expires_in) ==
  /\ Quiet
  /\ ExchangeDone(c, expires_in)
  /\ task' = IF call[c].owner = EnvOwner THEN task
             ELSE [task EXCEPT ![call[c].owner].pc = "search",
                               ![call[c].owner].token = call'[c].token]
  /\ UNCHANGED req

(* ExchangeFail that remembers the fault in the cache for a second.        *)
ExchangeFailCachesFault(c) ==
  /\ Quiet
  /\ call[c].pc = "exchange"
  /\ call' = [call EXCEPT ![c].pc = "failed", ![c].retClock = clock,
                          ![c].retWrites = writes]
  /\ spotifyAccessToken' = "fault"
  /\ spotifyTokenExpiresAt' = NewExpiresAt(clock, 1)
  /\ task' = IF call[c].owner = EnvOwner THEN task
             ELSE [task EXCEPT ![call[c].owner].pc = "rejected"]
  /\ UNCHANGED <<clock, numExchanges, writes, nextCall, req>>

(* The exchange of call c fails; the await of line 58 throws.              *)
ExchangeFail(c) ==
  /\ Quiet
  /\ ExchangeFailed(c)
  /\ task' = IF call[c].owner = EnvOwner THEN task
             ELSE [task EXCEPT ![call[c].owner].pc = "rejected"]
  /\ UNCHANGED req

(* The catalog holds items for the query of search t and answers with the  *)
(* first limit of them: lines 65-69.                                       *)
SearchOk(t, items) ==
  /\ Quiet
  /\ task[t].pc = "search"
  /\ task' = [task EXCEPT ![t].pc = "fulfilled",
                          ![t].items = Slice(items, task[t].limit),
                          ![t].value = MapTracks(Slice(items, task[t].limit))]
  /\ UNCHANGED <<authVars, req>>

(* axios.get rejects: the await of line 60 throws.                         *)
SearchFail(t) ==
  /\ Quiet
  /\ task[t].pc = "search"
  /\ task' = [task EXCEPT ![t].pc = "rejected"]
  /\ UNCHANGED <<authVars, req>>

(* Time passes.                                                            *)
Advance(d) ==
  /\ Quiet
  /\ clock + d <= MaxClock
  /\ clock' = clock + d
  /\ UNCHANGED <<spotifyAccessToken, spotifyTokenExpiresAt, numExchanges,
                 writes, nextCall, call, task, req>>

(* Some caller invokes getSpotifyAccessToken().                            *)
EnvGetToken ==
  /\ Quiet
  /\ nextCall <= MaxEnvCalls
  /\ GetTokenCalls(<<EnvOwner>>)
  /\ UNCHANGED <<task, req>>

Init ==
  /\ spotifyAccessToken = Null
  /\ spotifyTokenExpiresAt = 0
  /\ clock = 0
  /\ numExchanges = 0
  /\ writes = 0
  /\ nextCall = 1
  /\ call = [c \in CallIds |-> IdleCall]
  /\ task = [t \in TaskIds |-> IdleTask]
  /\ req = [r \in Reqs |-> IdleReq]

(***************************************************************************)
(* The handlers.  A request arrives with a JSON body; the handler runs to  *)
(* its first await, and each later action is the continuation after an     *)
(* await.                                                                  *)
(***************************************************************************)
ServerError == [error |-> "Server error"]

(* res.json(body) / res.status(status).json(body): the handler is done.    *)
Respond(rq, status, body) ==
  [rq EXCEPT !.pc = "done", !.awaiting = {},
             !.response = [status |-> status, body |-> body],
             !.sent = @ + 1]

Fulfilled(r, s) == task[<<r, s>>].pc = "fulfilled"

(* The value a fulfilled search of request r resolved with.                *)
Value(r, s) == task[<<r, s>>].value

(***************************************************************************)
(* POST /spotify/therapy, lines 75-113.                                    *)
(***************************************************************************)
QSets ==
  [sad       |-> <<"healing acoustic", "emotional mellow", "uplifting indie">>,
   angry     |-> <<"calming ambient", "soft piano", "positive pop">>,
   fearful   |-> <<"comfort calm vocal", "lofi relax", "confidence pop">>,
   disgusted |-> <<"neutral chill", "soft indie", "fresh upbeat">>,
   surprised |-> <<"atmosphere calm", "soft pop", "bright vibes">>,
   happy     |-> <<"joy acoustic", "good vibes pop", "high energy">>,
   neutral   |-> <<"lofi calm", "indie mellow", "optimistic beats">>]

(* qsets[mood] || qsets.neutral                                            *)
StageQueries(mood) ==
  IF mood \in DOMAIN QSets THEN QSets[mood] ELSE QSets.neutral

(* lines 80, 92-94                                                         *)
LanguageSuffix(language) ==
  LET lang == ToLowerCase(OrElse(language, "english"))
  IN IF lang = "punjabi" THEN " punjabi"
     ELSE IF lang = "hindi" THEN " hindi"
     ELSE ""

(* The searches of stage n: the primary one and the fallback one.          *)
PrimarySlot(n) == 2 * n - 1
FallbackSlot(n) == 2 * n

(* The bodies the model sends to /spotify/therapy.                         *)
TherapyBodies ==
  {b \in [mood : {Null, "sad", "bored"}, language : {Null, "Hindi", "punjabi"},
          mode : {Null}, year : {Null}, prompt : {Null}, vibe : {Null}] :
     /\ b.mood = Null => b.language = Null
     /\ b.mood = "bored" => b.language # "punjabi"
     /\ b.mood = "sad" => b.language # Null}

(* lines 76-99 and 104: validation, planning, first search of stage 1.     *)
TherapyRequest(r, b) ==
  /\ Quiet
  /\ req[r].pc = "idle"
  /\ LET rq == [req[r] EXCEPT !.kind = "therapy", !.body = b]
     IN IF ~Truthy(b.mood)
        THEN /\ req' = [req EXCEPT ![r] =
                   Respond(rq, 400, [error |-> "Mood missing"])]
             /\ UNCHANGED <<authVars, task>>
        ELSE LET suffix == LanguageSuffix(b.language)
                 queries == StageQueries(b.mood)
             IN /\ Launch(r, <<PrimarySlot(1)>>, <<queries[1] \o suffix>>,
                          StageLimit)
                /\ req' = [req EXCEPT ![r] =
                      [rq EXCEPT !.pc = "primary", !.suffix = suffix,
                                 !.queries = queries, !.stage = 1,
                                 !.awaiting = {PrimarySlot(1)}]]

(* getStage returns r.slice(0, 6): the handler goes on to the next stage   *)
(* (lines 105, 106) or sends the response (line 108).                      *)
StageReturns(r, found) ==
  LET n == req[r].stage
      stages == Append(req[r].stages, Slice(found, StageCap))
  IN IF n < NumStages
     THEN /\ Launch(r, <<PrimarySlot(n + 1)>>,
                    <<req[r].queries[n + 1] \o req[r].suffix>>, StageLimit)
          /\ req' = [req EXCEPT ![r].pc = "primary", ![r].stage = n + 1,
                                ![r].stages = stages,
                                ![r].awaiting = {PrimarySlot(n + 1)}]
     ELSE /\ req' = [req EXCEPT ![r] =
                Respond([req[r] EXCEPT !.stages = stages], 200,
                        [stage1 |-> stages[1], stage2 |-> stages[2],
                         stage3 |-> stages[3]])]
          /\ UNCHANGED <<authVars, task>>

(* Catch that swallows the fault and sends nothing.                        *)
CatchSilent(r) ==
  /\ req' = [req EXCEPT ![r].pc = "done", ![r].awaiting = {}]
  /\ UNCHANGED <<authVars, task>>

(* catch (err) { res.status(500).json({ error: "Server error" }) }         *)
Catch(r) ==
  /\ req' = [req EXCEPT ![r] = Respond(req[r], 500, ServerError)]
  /\ UNCHANGED <<authVars, task>>

(* TherapyPrimary that returns an empty primary result as it is.           *)
TherapyPrimaryNoFallback(r) ==
  /\ req[r].kind = "therapy"
  /\ req[r].pc = "primary"
  /\ Pending(r)
  /\ LET n == req[r].stage
     IN IF ~Fulfilled(r, PrimarySlot(n)) THEN Catch(r)
        ELSE StageReturns(r, Value(r, PrimarySlot(n)))

(* TherapyPrimary that takes a failed primary search for an empty stage    *)
(* and goes on to the next stage.                                          *)
TherapyPrimaryIgnoresFault(r) ==
  /\ req[r].kind = "therapy"
  /\ req[r].pc = "primary"
  /\ Pending(r)
  /\ LET n == req[r].stage
     IN IF ~Fulfilled(r, PrimarySlot(n)) THEN StageReturns(r, <<>>)
        ELSE IF Len(Value(r, PrimarySlot(n))) = 0
        THEN /\ Launch(r, <<FallbackSlot(n)>>, <<req[r].queries[n]>>,
                       StageLimit)
             /\ req' = [req EXCEPT ![r].pc = "fallback",
                                   ![r].awaiting = {FallbackSlot(n)}]
        ELSE StageReturns(r, Value(r, PrimarySlot(n)))

(* The await of line 99 settles; lines 100-101.                            *)
TherapyPrimary(r) ==
  /\ req[r].kind = "therapy"
  /\ req[r].pc = "primary"
  /\ Pending(r)
  /\ LET n == req[r].stage
     IN IF ~Fulfilled(r, PrimarySlot(n)) THEN Catch(r)
        ELSE IF Len(Value(r, PrimarySlot(n))) = 0
        THEN /\ Launch(r, <<FallbackSlot(n)>>, <<req[r].queries[n]>>,
                       StageLimit)
             /\ req' = [req EXCEPT ![r].pc = "fallback",
                                   ![r].awaiting = {FallbackSlot(n)}]
        ELSE StageReturns(r, Value(r, PrimarySlot(n)))

(* The await of line 100 settles; line 101.                                *)
TherapyFallback(r) ==
  /\ req[r].kind = "therapy"
  /\ req[r].pc = "fallback"
  /\ Pending(r)
  /\ LET n == req[r].stage
     IN IF ~Fulfilled(r, FallbackSlot(n)) THEN Catch(r)
        ELSE StageReturns(r, Value(r, FallbackSlot(n)))

(***************************************************************************)
(* The credential cache under arbitrary callers.                           *)
(***************************************************************************)
NextAuth ==
  \/ EnvGetToken
  \/ \E c \in CallIds, e \in Lifetimes : ExchangeOk(c, e)
  \/ \E c \in CallIds : ExchangeFail(c)
  \/ \E d \in TickSteps : Advance(d)

SpecAuth == Init /\ [][NextAuth]_vars

(***************************************************************************)
(* POST /spotify/nostalgia, lines 118-176.                                 *)
(***************************************************************************)
(* lines 124-157: the query of the request.                                *)
NostalgiaQuery(b) ==
  LET base == IF b.mode = "childhood"
                THEN "2000s kids show theme nostalgic soft happy"
              ELSE IF b.mode = "teen"
                THEN "2010 teenage anthems pop rock nostalgia school vibes"
              ELSE IF b.mode = "year"
                THEN "top hits " \o b.year \o " nostalgic throwback"
              ELSE IF b.mode = "prompt"
                THEN b.prompt \o " nostalgic memory aesthetic soft"
              ELSE ""
      shaded == IF Truthy(b.vibe) THEN base \o " " \o b.vibe \o " vibe"
                ELSE base
  IN IF Truthy(b.mood) THEN shaded \o " " \o b.mood \o " feel" ELSE shaded

(* lines 125-151: the label of the request.                                *)
NostalgiaLabel(b) ==
  IF b.mode = "childhood" THEN "Childhood " \o Bullet \o " Nostalgic mix"
  ELSE IF b.mode = "teen" THEN "Teenage Years " \o Bullet \o " Nostalgic mix"
  ELSE IF b.mode = "year"
    THEN "Year " \o b.year \o " " \o Bullet \o " Throwback mix"
  ELSE IF b.mode = "prompt"
    THEN "Memory Prompt " \o Bullet \o " Personalized mix"
  ELSE ""

(* The bodies the model sends to /spotify/nostalgia.                       *)
NostalgiaModes == {Null, "childhood", "teen", "year", "prompt", "other"}
NostalgiaBodies ==
  {b \in [mood : {Null, "sad"}, language : {Null}, mode : NostalgiaModes,
          year : {Null, "2010"}, prompt : {Null, "beach"},
          vibe : {Null, "calm"}] :
     /\ b.mode # "year" => b.year = Null
     /\ b.mode # "prompt" => b.prompt = Null
     /\ b.mode \in {Null, "other", "teen"} => b.vibe = Null /\ b.mood = Null}

(* NostalgiaRequest that starts the search before it looks at the year    *)
(* and the prompt.                                                         *)
NostalgiaRequestLateCheck(r, b) ==
  /\ Quiet
  /\ req[r].pc = "idle"
  /\ LET rq == [req[r] EXCEPT !.kind = "nostalgia", !.body = b]
         fault(msg) ==
           /\ req' = [req EXCEPT ![r] = Respond(rq, 400, [error |-> msg])]
           /\ UNCHANGED <<authVars, task>>
         late(msg) ==
           /\ req' = [req EXCEPT ![r] = Respond(rq, 400, [error |-> msg])]
           /\ Launch(r, <<1>>, <<NostalgiaQuery(b)>>, NostalgiaLimit)
     IN IF ~Truthy(b.mode) THEN fault("Missing mode")
        ELSE IF b.mode = "year" /\ ~Truthy(b.year) THEN late("Year required")
        ELSE IF b.mode = "prompt" /\ ~Truthy(b.prompt)
          THEN late("Prompt required")
        ELSE /\ Launch(r, <<1>>, <<NostalgiaQuery(b)>>, NostalgiaLimit)
             /\ req' = [req EXCEPT ![r] =
                   [rq EXCEPT !.pc = "primary", !.awaiting = {1},
                              !.queries = <<NostalgiaQuery(b)>>,
                              !.label = NostalgiaLabel(b)]]

(* lines 119-160: validation, planning, the primary search.                *)
NostalgiaRequest(r, b) ==
  /\ Quiet
  /\ req[r].pc = "idle"
  /\ LET rq == [req[r] EXCEPT !.kind = "nostalgia", !.body = b]
         fault(msg) ==
           /\ req' = [req EXCEPT ![r] = Respond(rq, 400, [error |-> msg])]
           /\ UNCHANGED <<authVars, task>>
     IN IF ~Truthy(b.mode) THEN fault("Missing mode")
        ELSE IF b.mode = "year" /\ ~Truthy(b.year) THEN fault("Year required")
        ELSE IF b.mode = "prompt" /\ ~Truthy(b.prompt)
          THEN fault("Prompt required")
        ELSE /\ Launch(r, <<1>>, <<NostalgiaQuery(b)>>, NostalgiaLimit)
             /\ req' = [req EXCEPT ![r] =
                   [rq EXCEPT !.pc = "primary", !.awaiting = {1},
                              !.queries = <<NostalgiaQuery(b)>>,
                              !.label = NostalgiaLabel(b)]]

(* res.json({ tracks: results.slice(0, 12), meta: { label } })             *)
NostalgiaResponds(r, results, label) ==
  /\ req' = [req EXCEPT ![r] =
        Respond([req[r] EXCEPT !.label = label], 200,
                [tracks |-> Slice(results, FlatCap),
                 meta |-> [label |-> label]])]
  /\ UNCHANGED <<authVars, task>>

(* The await of line 160 settles; lines 163-164 or 168-171.                *)
NostalgiaPrimary(r) ==
  /\ req[r].kind = "nostalgia"
  /\ req[r].pc = "primary"
  /\ Pending(r)
  /\ IF ~Fulfilled(r, 1) THEN Catch(r)
     ELSE IF Len(Value(r, 1)) = 0
     THEN /\ Launch(r, <<2>>, <<"nostalgic retro throwback">>,
                    NostalgiaFallbackLimit)
          /\ req' = [req EXCEPT ![r].pc = "fallback", ![r].awaiting = {2}]
     ELSE NostalgiaResponds(r, Value(r, 1), req[r].label)

(* NostalgiaFallback that repeats the fallback query while it finds        *)
(* nothing.                                                                *)
NostalgiaFallbackRetries(r) ==
  /\ req[r].kind = "nostalgia"
  /\ req[r].pc = "fallback"
  /\ Pending(r)
  /\ IF ~Fulfilled(r, 2) THEN Catch(r)
     ELSE IF Len(Value(r, 2)) = 0
     THEN /\ Launch(r, <<2>>, <<"nostalgic retro throwback">>,
                    NostalgiaFallbackLimit)
          /\ UNCHANGED req
     ELSE NostalgiaResponds(r, Value(r, 2), req[r].label \o FallbackMarker)

(* The await of line 164 settles; lines 165-171.                           *)
NostalgiaFallback(r) ==
  /\ req[r].kind = "nostalgia"
  /\ req[r].pc = "fallback"
  /\ Pending(r)
  /\ IF ~Fulfilled(r, 2) THEN Catch(r)
     ELSE NostalgiaResponds(r, Value(r, 2), req[r].label \o FallbackMarker)

(***************************************************************************)
(* POST /spotify/vibe, lines 180-234.                                      *)
(***************************************************************************)
VibeMap ==
  [chill       |-> "lofi chill beats mellow instrumental",
   hype        |-> "high energy pop dance upbeat",
   romantic    |-> "romantic slow love ballad",
   dreamy      |-> "ethereal ambient dream pop",
   night_drive |-> "synthwave night drive neon",
   rainy       |-> "rainy day acoustic mellow lofi",
   focus       |-> "focus instrumental study lofi",
   party       |-> "edm club bangers high energy"]

(* if (prompt && prompt.trim())                                            *)
HasPrompt(b) == Truthy(b.prompt) /\ Truthy(Trim(b.prompt))

(* lines 185-212: the query of the request.                                *)
VibeQuery(b) ==
  LET key == OrElse(b.vibe, "custom")
      base == IF HasPrompt(b) THEN Trim(b.prompt) \o " music"
              ELSE IF key \in DOMAIN VibeMap THEN VibeMap[key]
              ELSE IF Truthy(b.vibe) THEN b.vibe \o " music"
              ELSE "chill lofi"
  IN IF Truthy(b.mood) THEN base \o " " \o b.mood ELSE base

(* lines 186-212: the label of the request.                                *)
VibeLabel(b) ==
  LET base == IF HasPrompt(b) THEN Trim(b.prompt)
              ELSE ReplaceUnderscoreDash(OrElse(b.vibe, "Custom vibe"))
  IN IF Truthy(b.mood) THEN base \o " " \o Bullet \o " " \o b.mood ELSE base

(* line 227                                                                *)
VibeSnapshot(b, label) ==
  "Vibe: " \o label \o ". " \o
  (IF Truthy(b.prompt) THEN "You described: " \o b.prompt \o "." ELSE "")

(* The bodies the model sends to /spotify/vibe.                            *)
VibeBodies ==
  [mood : {Null, "sad"}, language : {Null}, mode : {Null}, year : {Null},
   prompt : {Null, " rain ", "  "}, vibe : {Null, "night_drive", "jazz"}]

(* lines 181-215: planning, the primary search.                            *)
VibeRequest(r, b) ==
  /\ Quiet
  /\ req[r].pc = "idle"
  /\ Launch(r, <<1>>, <<VibeQuery(b)>>, VibeLimit)
  /\ req' = [req EXCEPT ![r] =
        [req[r] EXCEPT !.kind = "vibe", !.body = b, !.pc = "primary",
                       !.awaiting = {1}, !.queries = <<VibeQuery(b)>>,
                       !.label = VibeLabel(b)]]

(* lines 223-229                                                           *)
VibeResponds(r, results, label) ==
  /\ req' = [req EXCEPT ![r] =
        Respond([req[r] EXCEPT !.label = label], 200,
                [tracks |-> Slice(results, FlatCap),
                 meta |-> [label |-> label,
                           snapshot |-> VibeSnapshot(req[r].body, label)]])]
  /\ UNCHANGED <<authVars, task>>

(* The await of line 215 settles; lines 216-218 or 223-229.                *)
VibePrimary(r) ==
  /\ req[r].kind = "vibe"
  /\ req[r].pc = "primary"
  /\ Pending(r)
  /\ IF ~Fulfilled(r, 1) THEN Catch(r)
     ELSE IF Len(Value(r, 1)) = 0
     THEN /\ Launch(r, <<2>>, <<"nostalgic chill pop">>, VibeLimit)
          /\ req' = [req EXCEPT ![r].pc = "fallback", ![r].awaiting = {2}]
     ELSE VibeResponds(r, Value(r, 1), req[r].label)

(* The await of line 218 settles; lines 219-229.                           *)
VibeFallback(r) ==
  /\ req[r].kind = "vibe"
  /\ req[r].pc = "fallback"
  /\ Pending(r)
  /\ IF ~Fulfilled(r, 2) THEN Catch(r)
     ELSE VibeResponds(r, Value(r, 2), req[r].label \o FallbackMarker)

(***************************************************************************)
(* POST /spotify/bydj, lines 236-294.                                      *)
(***************************************************************************)
(* Array.prototype.filter(Boolean) on strings                              *)
RECURSIVE FilterTruthy(_)
FilterTruthy(strs) ==
  IF Len(strs) = 0 THEN <<>>
  ELSE (IF Truthy(strs[1]) THEN <<strs[1]>> ELSE <<>>)
       \o FilterTruthy(Tail(strs))

(* lines 244-249                                                           *)
BydjQueries(prompt) ==
  Slice(FilterTruthy(<<prompt,
                       prompt \o " popular tracks",
                       prompt \o " vibes music",
                       prompt \o " top songs">>), MaxFanOut)

(* The search of the fallback query of line 264.                           *)
BydjFallbackSlot == MaxFanOut + 1

(* Combined that pushes the values of the later searches first.            *)
RECURSIVE CombinedReversed(_, _)
CombinedReversed(r, k) ==
  IF k = 0 THEN <<>>
  ELSE (IF Fulfilled(r, k) THEN Value(r, k) ELSE <<>>)
       \o CombinedReversed(r, k - 1)

(* lines 255-260: the values of the fulfilled searches 1..k of request r,  *)
(* pushed in that order.                                                   *)
RECURSIVE Combined(_, _)
Combined(r, k) ==
  IF k = 0 THEN <<>>
  ELSE Combined(r, k - 1) \o (IF Fulfilled(r, k) THEN Value(r, k) ELSE <<>>)

(* DedupKey that compares titles case-sensitively.                         *)
DedupKeyCaseSensitive(t) == Trim(OrElse(t.title, ""))

(* s.toLowerCase().trim(), worked out once for every string s that         *)
(* (t.title || '') can be.                                                 *)
LowerTrimmed ==
  [s \in {OrElse(title, "") : title \in CatalogTitles} |->
     Trim(ToLowerCase(s))]

(* (t.title || '').toLowerCase().trim()                                    *)
DedupKey(t) == LowerTrimmed[OrElse(t.title, "")]

(* lines 269-278: the loop over combined, from index i on; Visit is the    *)
(* body of the loop for the track combined[i] with the given key.          *)
RECURSIVE DedupFrom(_, _, _, _)
RECURSIVE Visit(_, _, _, _, _)
Visit(combined, i, seen, unique, key) ==
  IF ~Truthy(key) THEN DedupFrom(combined, i + 1, seen, unique)
  ELSE IF key \notin seen
    THEN DedupFrom(combined, i + 1, seen \cup {key},
                   Append(unique, combined[i]))
  ELSE DedupFrom(combined, i + 1, seen, unique)

DedupFrom(combined, i, seen, unique) ==
  IF i > Len(combined) THEN unique
  ELSE Visit(combined, i, seen, unique, DedupKey(combined[i]))

Dedup(combined) == DedupFrom(combined, 1, {}, <<>>)

(* line 286                                                                *)
BydjSnapshot(n, mood) ==
  "Generated " \o ToString(n) \o " unique tracks from your ingredients"
  \o (IF Truthy(mood) THEN " " \o Bullet \o " mood: " \o mood ELSE "")
  \o "."

(* The bodies the model sends to /spotify/bydj.                            *)
BydjBodies ==
  {b \in [mood : {Null, "sad"}, language : {Null}, mode : {Null},
          year : {Null}, prompt : {Null, "rainy night", NonString},
          vibe : {Null}] :
     b.mood = "sad" => b.prompt = Null}

(* lines 237-252: validation, planning, all the searches started.          *)
BydjRequest(r, b) ==
  /\ Quiet
  /\ req[r].pc = "idle"
  /\ LET rq == [req[r] EXCEPT !.kind = "bydj", !.body = b]
         prompt == IF b.prompt = Null THEN "" ELSE b.prompt
         queries == BydjQueries(prompt)
     IN IF prompt = NonString
        THEN /\ req' = [req EXCEPT ![r] =
                   Respond(rq, 400, [error |-> "Invalid prompt"])]
             /\ UNCHANGED <<authVars, task>>
        ELSE /\ Launch(r, [i \in 1..Len(queries) |-> i], queries, FanOutLimit)
             /\ req' = [req EXCEPT ![r] =
                   [rq EXCEPT !.pc = "fanout", !.queries = queries,
                              !.awaiting = 1..Len(queries)]]

(* BydjResponds that applies the final limit before the deduplication.     *)
BydjRespondsSlicesFirst(r, combined) ==
  LET final == Dedup(Slice(combined, FlatCap))
      mood == IF req[r].body.mood = Null THEN "" ELSE req[r].body.mood
  IN /\ req' = [req EXCEPT ![r] =
           Respond([req[r] EXCEPT !.combined = combined], 200,
                   [tracks |-> final,
                    meta |-> [label |-> "Build-A-Track result",
                              snapshot |-> BydjSnapshot(Len(final), mood)]])]
     /\ UNCHANGED <<authVars, task>>

(* lines 268-289: deduplication, final limit, response.                    *)
BydjResponds(r, combined) ==
  LET final == Slice(Dedup(combined), FlatCap)
      mood == IF req[r].body.mood = Null THEN "" ELSE req[r].body.mood
  IN /\ req' = [req EXCEPT ![r] =
           Respond([req[r] EXCEPT !.combined = combined], 200,
                   [tracks |-> final,
                    meta |-> [label |-> "Build-A-Track result",
                              snapshot |-> BydjSnapshot(Len(final), mood)]])]
     /\ UNCHANGED <<authVars, task>>

(* Promise.allSettled of line 252 resolves; lines 255-264 or 255-289.      *)
BydjSettled(r) ==
  /\ req[r].kind = "bydj"
  /\ req[r].pc = "fanout"
  /\ Pending(r)
  /\ LET combined == Combined(r, Len(req[r].queries))
     IN IF Len(combined) = 0
        THEN /\ Launch(r, <<BydjFallbackSlot>>, <<"nostalgic mellow mix">>,
                       BydjFallbackLimit)
             /\ req' = [req EXCEPT ![r].pc = "fallback",
                                   ![r].combined = combined,
                                   ![r].awaiting = {BydjFallbackSlot}]
        ELSE BydjResponds(r, combined)

(* The await of line 264 settles; lines 265-289.                           *)
BydjFallback(r) ==
  /\ req[r].kind = "bydj"
  /\ req[r].pc = "fallback"
  /\ Pending(r)
  /\ IF ~Fulfilled(r, BydjFallbackSlot) THEN Catch(r)
     ELSE BydjResponds(r, req[r].combined \o Value(r, BydjFallbackSlot))

(***************************************************************************)
(* Properties of the credential cache.                                     *)
(***************************************************************************)
(* The calls that went to the token service.                               *)
Misses == {c \in CallIds : call[c].pc # "idle" /\ ~call[c].hit}

(* Call c returns from the cache in this step.                             *)
HitStep(c) == call[c].pc = "idle" /\ call'[c].pc = "returned"

(* Call c starts in this step.                                             *)
StartStep(c) == call[c].pc = "idle" /\ call'[c].pc # "idle"

(* The exchange of call c succeeds in this step.                           *)
DoneStep(c) == call[c].pc = "exchange" /\ call'[c].pc = "returned"

(* C1: token reuse.  If a call c2 starts after a call c1 has returned,     *)
(* the cached pair is still the one c1 returned from, and both call times  *)
(* are strictly before the cached expiresAt, then c2 returns the token c1  *)
(* returned without an exchange of its own, and the two calls performed    *)
(* at most the one exchange that filled the cache (exactly one in total    *)
(* when they are the only calls made); a call that hits the cache sends    *)
(* nothing and leaves the cached pair unchanged.                           *)
TokenReuse ==
  /\ [](\A c1, c2 \in CallIds :
          ( /\ call[c1].pc = "returned"
            /\ call[c2].pc # "idle"
            /\ c1 \in call[c2].after
            /\ call[c2].seenWrites = call[c1].retWrites
            /\ call[c1].now < call[c2].seenExp
            /\ call[c2].now < call[c2].seenExp )
          => /\ call[c2].pc = "returned"
             /\ call[c2].hit
             /\ call[c2].xid = 0
             /\ call[c2].token = call[c1].token
             /\ (nextCall = 3 => numExchanges = 1))
  /\ [][\A c \in CallIds :
          HitStep(c) => /\ numExchanges' = numExchanges
                        /\ spotifyAccessToken' = spotifyAccessToken
                        /\ spotifyTokenExpiresAt' = spotifyTokenExpiresAt
                        /\ call'[c].token = spotifyAccessToken]_vars

(* Two calls one after the other, at different times, both served from     *)
(* the cache with the same token.                                          *)
TokenReuseWitness ==
  \E c1, c2 \in CallIds :
     /\ call[c1].pc = "returned" /\ call[c1].hit
     /\ call[c2].pc = "returned" /\ call[c2].hit
     /\ c1 \in call[c2].after
     /\ call[c1].now < call[c2].now
     /\ call[c2].seenWrites = call[c1].retWrites
     /\ call[c2].token = call[c1].token
     /\ numExchanges = 1

(* C2: token refresh.  A call that starts when the cache is empty or when  *)
(* now >= expiresAt sends exactly one exchange; when its response arrives, *)
(* the cached pair becomes the returned token and (time read at the start  *)
(* of the call) + returned lifetime, and the call returns that token.      *)
TokenRefresh ==
  [][\A c \in CallIds :
       /\ ( StartStep(c) /\ ( spotifyAccessToken = Null
                              \/ clock >= spotifyTokenExpiresAt ) )
          => /\ call'[c].pc = "exchange"
             /\ call'[c].xid \in (numExchanges + 1)..numExchanges'
             /\ numExchanges' - numExchanges =
                  Cardinality({d \in CallIds : StartStep(d)})
             /\ \A d \in CallIds \ {c} : call'[d].xid # call'[c].xid
       /\ DoneStep(c)
          => /\ numExchanges' = numExchanges
             /\ call'[c].xid = call[c].xid
             /\ spotifyAccessToken' = AccessToken(call[c].xid)
             /\ spotifyTokenExpiresAt' =
                  call[c].now + call'[c].expires_in * 1000
             /\ call'[c].token = spotifyAccessToken'
             /\ call'[c].token # spotifyAccessToken]_vars

(* A call made exactly at expiresAt of a cached token has refreshed it.    *)
TokenRefreshWitness ==
  \E c \in CallIds :
     /\ call[c].pc = "returned" /\ ~call[c].hit
     /\ call[c].seenToken # Null
     /\ call[c].now = call[c].seenExp
     /\ spotifyAccessToken = call[c].token
     /\ spotifyAccessToken # call[c].seenToken
     /\ spotifyTokenExpiresAt = call[c].now + call[c].expires_in * 1000

(* Calls c and d overlapped: neither started after the other's return.     *)
Concurrent(c, d) ==
  /\ c # d
  /\ call[c].pc # "idle" /\ call[d].pc # "idle"
  /\ c \notin call[d].after /\ d \notin call[c].after

(* C3: unserialized refresh race.  Calls that start while the cache is     *)
(* empty or expired each send their own exchange, each one that succeeds   *)
(* returns the token of its own exchange, and the cached token and         *)
(* expiresAt are both those of the exchange whose response was processed   *)
(* last.                                                                   *)
RefreshRace ==
  /\ \A c \in CallIds :
        ( call[c].pc # "idle"
          /\ ~CacheHit(call[c].seenToken, call[c].now, call[c].seenExp) )
        => /\ c \in Misses
           /\ call[c].xid \in 1..numExchanges
           /\ \A d \in Misses \ {c} : call[d].xid # call[c].xid
           /\ call[c].pc = "returned"
                => call[c].token = AccessToken(call[c].xid)
  /\ Cardinality(Misses) = numExchanges
  /\ writes > 0 =>
       \E c \in Misses :
          /\ call[c].pc = "returned"
          /\ call[c].retWrites = writes
          /\ \A d \in Misses : call[d].pc = "returned"
                                 => call[d].retWrites <= call[c].retWrites
          /\ spotifyAccessToken = AccessToken(call[c].xid)
          /\ spotifyTokenExpiresAt = call[c].now + call[c].expires_in * 1000

(* Two overlapping misses have both settled, the one that started first    *)
(* was answered last with another lifetime, and the cache holds its pair.  *)
RefreshRaceWitness ==
  \E c, d \in Misses :
     /\ Concurrent(c, d)
     /\ \A b \in Misses : call[b].pc = "returned"
     /\ call[c].now < call[d].now
     /\ call[c].retWrites > call[d].retWrites
     /\ call[c].expires_in # call[d].expires_in
     /\ spotifyAccessToken = call[c].token
     /\ spotifyAccessToken # call[d].token
     /\ spotifyTokenExpiresAt = call[c].now + call[c].expires_in * 1000

(* Empty, Valid or Expired.                                                *)
CacheState(tok, exp, now) ==
  IF tok = Null THEN "Empty" ELSE IF now < exp THEN "Valid" ELSE "Expired"

CacheNow == CacheState(spotifyAccessToken, spotifyTokenExpiresAt, clock)

(* Only time passes in this step.                                          *)
TimeStep ==
  /\ clock' > clock
  /\ UNCHANGED <<spotifyAccessToken, spotifyTokenExpiresAt>>

(* The response of call c is processed at or after the expiry it stores.   *)
LateDoneStep(c) ==
  /\ DoneStep(c)
  /\ call[c].now + call'[c].expires_in * 1000 <= clock

(* C4 as claimed: the cache moves only Empty->Valid and Expired->Valid     *)
(* through a successful exchange and Valid->Expired only through the       *)
(* passage of time; no completion of an exchange takes it from Valid to    *)
(* Expired, and it never returns to Empty.                                 *)
CacheMachineClaimed ==
  [][CacheNow' # CacheNow =>
       \/ /\ CacheNow \in {"Empty", "Expired"}
          /\ CacheNow' = "Valid"
          /\ \E c \in CallIds : DoneStep(c)
       \/ /\ CacheNow = "Valid"
          /\ CacheNow' = "Expired"
          /\ TimeStep]_vars

(* C4 as amended: the cached pair changes only when an exchange succeeds;  *)
(* Empty->Valid and Expired->Valid happen only through a successful        *)
(* exchange; the cache leaves Valid for Expired through the passage of     *)
(* time or through the late response of an exchange that was in flight     *)
(* when the cached token was stored, and a late response also takes Empty  *)
(* to Expired; the cache never returns to Empty.                           *)
CacheMachine ==
  [][/\ ( spotifyAccessToken' # spotifyAccessToken
          \/ spotifyTokenExpiresAt' # spotifyTokenExpiresAt )
        => \E c \in CallIds : DoneStep(c)
     /\ CacheNow' # CacheNow =>
          \/ /\ CacheNow \in {"Empty", "Expired"}
             /\ CacheNow' = "Valid"
             /\ \E c \in CallIds : DoneStep(c) /\ ~LateDoneStep(c)
          \/ /\ CacheNow = "Valid"
             /\ CacheNow' = "Expired"
             /\ \/ TimeStep
                \/ \E c \in CallIds : /\ LateDoneStep(c)
                                      /\ call[c].seenWrites < writes
          \/ /\ CacheNow = "Empty"
             /\ CacheNow' = "Expired"
             /\ \E c \in CallIds : LateDoneStep(c)]_vars

(* The response of call d replaced a token that was still valid by an      *)
(* expired pair.                                                           *)
CacheMachineWitness ==
  \E c, d \in Misses :
     /\ call[c].pc = "returned" /\ call[d].pc = "returned"
     /\ call[d].retWrites = call[c].retWrites + 1
     /\ call[d].seenWrites < call[c].retWrites
     /\ call[d].retClock < call[c].now + call[c].expires_in * 1000
     /\ call[d].now + call[d].expires_in * 1000 <= call[d].retClock

(* The exchange of call c fails in this step.                              *)
FailStep(c) == call[c].pc = "exchange" /\ call'[c].pc = "failed"

(* Call d saw the cache as the failure of call c left it.                  *)
NextAfterFailure(c, d) ==
  /\ call[c].pc = "failed"
  /\ call[d].pc # "idle"
  /\ d > c
  /\ call[d].seenWrites = call[c].retWrites

(* C19 as claimed: when the exchange of a call fails, the cached token     *)
(* and expiresAt are what they were when the call started, and the next    *)
(* call attempts a fresh exchange.                                         *)
FailureLeavesCacheClaimed ==
  /\ [][\A c \in CallIds :
          FailStep(c) => /\ spotifyAccessToken' = call[c].seenToken
                         /\ spotifyTokenExpiresAt' = call[c].seenExp]_vars
  /\ [](\A c, d \in CallIds : NextAfterFailure(c, d) => d \in Misses)

(* C19 as amended: the failure of an exchange changes neither the cached   *)
(* token nor expiresAt, and sends nothing; the failure is not cached: the  *)
(* failed call holds no token and the cache only ever holds the token of   *)
(* an exchange that succeeded; if no response of another exchange was      *)
(* processed while the call was waiting, the cached pair is still the one  *)
(* the call found when it started (empty, or the expired token), and the   *)
(* next call that finds this pair attempts a fresh exchange of its own.    *)
FailureLeavesCache ==
  /\ [][\A c \in CallIds :
          FailStep(c)
          => /\ spotifyAccessToken' = spotifyAccessToken
             /\ spotifyTokenExpiresAt' = spotifyTokenExpiresAt
             /\ writes' = writes
             /\ numExchanges' = numExchanges
             /\ call'[c].token = Null
             /\ call[c].seenWrites = writes
                  => /\ spotifyAccessToken' = call[c].seenToken
                     /\ spotifyTokenExpiresAt' = call[c].seenExp
                     /\ ~CacheHit(spotifyAccessToken', clock',
                                  spotifyTokenExpiresAt')]_vars
  /\ [](\A c \in CallIds :
          call[c].pc = "failed"
          => /\ call[c].token = Null
             /\ spotifyAccessToken # AccessToken(call[c].xid))
  /\ [](spotifyAccessToken # Null
          => \E c \in Misses : /\ call[c].pc = "returned"
                               /\ spotifyAccessToken = call[c].token)
  /\ [](\A c, d \in CallIds :
          ( NextAfterFailure(c, d) /\ call[c].seenWrites = call[c].retWrites )
          => /\ d \in Misses
             /\ call[d].xid \in 1..numExchanges
             /\ call[d].xid # call[c].xid
             /\ call[d].seenToken = call[c].seenToken
             /\ call[d].seenExp = call[c].seenExp)

(* A call found an expired token and its exchange failed; the cache still  *)
(* holds that token, and a call made later went to the token service       *)
(* again.                                                                  *)
FailureLeavesCacheWitness ==
  \E c, d \in CallIds :
     /\ NextAfterFailure(c, d)
     /\ call[c].seenToken # Null
     /\ call[c].seenWrites = call[c].retWrites
     /\ call[d].now > call[c].retClock
     /\ call[d].pc = "exchange"
     /\ spotifyAccessToken = call[c].seenToken
     /\ spotifyTokenExpiresAt = call[c].seenExp

(* The end of the lifetime of the token call w obtained, counted from the  *)
(* arrival of the response to its exchange.                                *)
LifetimeEnd(w) == call[w].retClock + call[w].expires_in * 1000

(* The call whose exchange made the n-th assignment to the cached pair.    *)
IsWriter(w, n) ==
  /\ w \in Misses
  /\ call[w].pc = "returned"
  /\ call[w].retWrites = n

(* C20: the cached expiry is conservative.  In every reachable state with  *)
(* a cached token, the token is that of the exchange whose response was    *)
(* processed last, and the cached expiresAt is no later than the time the  *)
(* call read the clock before sending the exchange plus the returned       *)
(* lifetime, hence no later than the arrival of the response plus that     *)
(* lifetime; every call served from                                        *)
(* the cache returned its token strictly before the end of the lifetime    *)
(* counted from the arrival of the token's exchange response.              *)
ExpiryConservative ==
  /\ spotifyAccessToken # Null
       => \E w \in CallIds :
             /\ IsWriter(w, writes)
             /\ spotifyAccessToken = call[w].token
             /\ spotifyTokenExpiresAt <= call[w].now + call[w].expires_in * 1000
             /\ call[w].now <= call[w].retClock
             /\ spotifyTokenExpiresAt <= LifetimeEnd(w)
  /\ \A h \in CallIds :
        ( call[h].pc = "returned" /\ call[h].hit )
        => \E w \in CallIds :
              /\ IsWriter(w, call[h].seenWrites)
              /\ call[h].token = call[w].token
              /\ call[h].retClock < call[h].seenExp
              /\ call[h].seenExp <= LifetimeEnd(w)
              /\ call[h].retClock < LifetimeEnd(w)

(* Two misses overlapped and were answered in the order opposite to their  *)
(* start; the response that arrived last came some time after its call     *)
(* read the clock, so the cached expiresAt lies strictly before the end of *)
(* the token's lifetime, and a later call was served from the cache.       *)
ExpiryConservativeWitness ==
  \E w, v, h \in CallIds :
     /\ IsWriter(w, writes)
     /\ IsWriter(v, writes - 1)
     /\ call[w].now < call[v].now
     /\ call[w].now < call[w].retClock
     /\ spotifyTokenExpiresAt < LifetimeEnd(w)
     /\ call[h].pc = "returned" /\ call[h].hit
     /\ call[h].seenWrites = writes
     /\ call[h].now > call[w].retClock

(***************************************************************************)
(* Properties of the staged endpoints.                                     *)
(***************************************************************************)
(* The first min(Len(items), cap) raw hits, mapped to tracks one by one.   *)
IsTopOf(out, items, cap) ==
  /\ Len(out) = (IF Len(items) < cap THEN Len(items) ELSE cap)
  /\ \A i \in 1..Len(out) : /\ out[i].title = items[i].name
                            /\ out[i].url = items[i].url

(* C5: staged fallback output.  For every completed stage of a therapy     *)
(* request: the primary query is the seed plus the language suffix; if it  *)
(* returned no hit, the fallback query is the seed without the suffix and  *)
(* the stage's output is the first min(N, 6) of its N hits in the          *)
(* backend's order; if it returned a hit, no fallback query was issued and *)
(* the output is the first min(n, 6) primary hits.                         *)
StagedFallbackOutput ==
  \A r \in Reqs :
    req[r].kind = "therapy" =>
      \A n \in 1..Len(req[r].stages) :
        LET seed == StageQueries(req[r].body.mood)[n]
            prim == task[<<r, 2 * n - 1>>]
            fall == task[<<r, 2 * n>>]
        IN /\ prim.pc = "fulfilled"
           /\ prim.query = seed \o LanguageSuffix(req[r].body.language)
           /\ IF Len(prim.items) = 0
              THEN /\ fall.pc = "fulfilled"
                   /\ fall.query = seed
                   /\ IsTopOf(req[r].stages[n], fall.items, 6)
              ELSE /\ fall.pc = "idle"
                   /\ IsTopOf(req[r].stages[n], prim.items, 6)

(* A therapy request with a language suffix was answered: one stage took   *)
(* six of the eight hits of its fallback, one passed on a short fallback   *)
(* list, and one kept its primary hits without a fallback.                 *)
StagedFallbackOutputWitness ==
  \E r \in Reqs :
    /\ req[r].kind = "therapy"
    /\ req[r].response.status = 200
    /\ req[r].suffix # ""
    /\ \E n \in 1..3 : /\ Len(task[<<r, 2 * n - 1>>].items) = 0
                       /\ Len(task[<<r, 2 * n>>].items) = 8
                       /\ Len(req[r].stages[n]) = 6
    /\ \E n \in 1..3 : /\ Len(task[<<r, 2 * n - 1>>].items) = 0
                       /\ Len(task[<<r, 2 * n>>].items) = 3
                       /\ Len(req[r].stages[n]) = 3
    /\ \E n \in 1..3 : /\ Len(task[<<r, 2 * n - 1>>].items) = 8
                       /\ task[<<r, 2 * n>>].pc = "idle"
                       /\ Len(req[r].stages[n]) = 6

(* String.prototype.endsWith                                               *)
EndsWith(str, suffix) ==
  /\ Len(str) >= Len(suffix)
  /\ SubSeq(str, Len(str) - Len(suffix) + 1, Len(str)) = suffix

(* Request r has run a fallback query to completion.                       *)
FallbackExecuted(r) ==
  \E s \in Slots :
     /\ task[<<r, s>>].pc = "fulfilled"
     /\ IF req[r].kind = "therapy" THEN s % 2 = 0 ELSE s = 2

(* The response carries a label that ends with the fallback marker.        *)
HasFallbackMarker(resp) ==
  /\ "meta" \in DOMAIN resp.body
  /\ EndsWith(resp.body.meta.label, " (fallback)")

(* C6: fallback marker.  Whenever a staged request (therapy, nostalgia,    *)
(* vibe) that executed a fallback query is answered, the label of the      *)
(* response indicates that the fallback was used.                          *)
FallbackMarked ==
  \A r \in Reqs :
    ( /\ req[r].kind \in {"therapy", "nostalgia", "vibe"}
      /\ req[r].response.status = 200
      /\ FallbackExecuted(r) )
    => HasFallbackMarker(req[r].response)

(***************************************************************************)
(* Properties of the fan-out endpoint.                                     *)
(***************************************************************************)
(* The bydj requests that have got past validation.                        *)
FanOuts ==
  {r \in Reqs : req[r].kind = "bydj" /\ req[r].pc # "idle"
                /\ req[r].response.status # 400}

(* The fan-out searches of request r.                                      *)
FanSlots(r) == 1..Len(req[r].queries)

(* The tracks that the fulfilled fan-out searches before search s found.   *)
RECURSIVE Offset(_, _)
Offset(r, s) ==
  IF s = 1 THEN 0
  ELSE Offset(r, s - 1)
       + (IF task[<<r, s - 1>>].pc = "fulfilled"
          THEN Len(task[<<r, s - 1>>].value) ELSE 0)

(* m is the results of the fulfilled fan-out searches of r, one after the  *)
(* other in the order of the planned queries.                              *)
IsMergeOf(m, r) ==
  /\ Len(m) = Offset(r, Len(req[r].queries) + 1)
  /\ \A s \in FanSlots(r) :
       task[<<r, s>>].pc = "fulfilled" =>
         \A i \in 1..Len(task[<<r, s>>].value) :
            m[Offset(r, s) + i] = task[<<r, s>>].value[i]

(* The fallback search of request r has been started.                      *)
FallbackIssued(r) == task[<<r, BydjFallbackSlot>>].pc # "idle"

(* C7: fan-out partial-failure tolerance and merge order.  All planned     *)
(* queries are launched together; nothing is merged and no response is     *)
(* sent while a launched query is unsettled; a rejected query contributes  *)
(* no track, does not by itself make the request fail and leaves its       *)
(* siblings alone; and the merged list is the results of the fulfilled     *)
(* queries in planned-query order.                                         *)
FanOutMerge ==
  /\ [](\A r \in FanOuts :
          /\ \A s \in FanSlots(r) : task[<<r, s>>].pc # "idle"
          /\ req[r].pc = "fanout" =>
               /\ req[r].combined = <<>>
               /\ req[r].response.status = 0
               /\ ~FallbackIssued(r)
          /\ req[r].pc # "fanout" =>
               /\ \A s \in FanSlots(r) :
                     task[<<r, s>>].pc \in {"fulfilled", "rejected"}
               /\ IF FallbackIssued(r)
                  THEN IsMergeOf(<<>>, r)
                  ELSE IsMergeOf(req[r].combined, r)
               /\ req[r].response.status = 500 =>
                     task[<<r, BydjFallbackSlot>>].pc = "rejected")
  /\ [][\A t, u \in TaskIds :
          ( t # u /\ task[t].pc # "rejected" /\ task'[t].pc = "rejected" )
          => task'[u] = task[u]]_vars

(* A request with four queries was answered: the first query failed for    *)
(* want of a token, the third failed in the search, and the results of     *)
(* the second and the fourth were merged in that order.                    *)
FanOutMergeWitness ==
  \E r \in FanOuts :
    /\ req[r].response.status = 200
    /\ Len(req[r].queries) = 4
    /\ task[<<r, 1>>].pc = "rejected" /\ call[task[<<r, 1>>].call].pc = "failed"
    /\ task[<<r, 3>>].pc = "rejected"
    /\ call[task[<<r, 3>>].call].pc = "returned"
    /\ Len(task[<<r, 2>>].value) = 3
    /\ Len(task[<<r, 4>>].value) = 12
    /\ Len(req[r].combined) = 15
    /\ req[r].combined[3].title = "Song B"
    /\ req[r].combined[15].title = "Song L"

(* The normalized form of every catalog title: lower-cased and trimmed,    *)
(* a missing title counting as the empty string.                           *)
NormOf ==
  [s \in CatalogTitles |-> Trim(ToLowerCase(IF s = Null THEN "" ELSE s))]

(* The normalized title of a track.                                        *)
NormTitle(t) == NormOf[t.title]

(* The normalized titles of a list of tracks.                              *)
NormTitles(m) == [p \in 1..Len(m) |-> NormTitle(m[p])]

(* The index of the first of the keys km that equals k, or 0.              *)
FirstPos(km, k) ==
  IF \E p \in 1..Len(km) : km[p] = k
  THEN CHOOSE p \in 1..Len(km) : km[p] = k /\ \A q \in 1..(p - 1) : km[q] # k
  ELSE 0

(* The tracks f, with keys kf, sit in m at the increasing indexes pos,     *)
(* which are the first occurrences of their keys.                          *)
KeepsFirsts(f, m, kf, pos) ==
  /\ \A i \in 1..Len(f) : kf[i] # "" /\ pos[i] > 0 /\ m[pos[i]] = f[i]
  /\ \A i, j \in 1..Len(f) : i < j => kf[i] # kf[j] /\ pos[i] < pos[j]

FirstsOf(f, m, kf, km) ==
  KeepsFirsts(f, m, kf, [i \in 1..Len(f) |-> FirstPos(km, kf[i])])

(* f keeps, in the order of m, first occurrences in m of distinct          *)
(* non-blank normalized titles.                                            *)
IsDedupOf(f, m) == FirstsOf(f, m, NormTitles(f), NormTitles(m))

(* C8: fan-out deduplication.  The tracks a bydj request returns are an    *)
(* order-preserving subsequence of the merged list, no two of them have    *)
(* the same normalized title, each is the first occurrence of its          *)
(* normalized title in the merged list, and none has an empty or blank     *)
(* normalized title.                                                       *)
FanOutDedup ==
  \A r \in FanOuts :
    req[r].response.status = 200 =>
      IsDedupOf(req[r].response.body.tracks, req[r].combined)

(* The merged titles "Song A", "song a ", "Song B" came back as "Song A",  *)
(* "Song B".                                                               *)
FanOutDedupWitness ==
  \E r \in FanOuts :
    /\ req[r].response.status = 200
    /\ [i \in 1..Len(req[r].combined) |-> req[r].combined[i].title]
         = <<"Song A", "song a ", "Song B">>
    /\ [i \in 1..Len(req[r].response.body.tracks) |->
          req[r].response.body.tracks[i].title] = <<"Song A", "Song B">>

(* Nothing is left of the fan-out results of r after deduplication: every  *)
(* track found has a blank normalized title, or none was found.            *)
FanOutDedupEmpty(r) ==
  \A s \in FanSlots(r) :
     task[<<r, s>>].pc = "fulfilled" =>
       \A i \in 1..Len(task[<<r, s>>].value) :
          NormTitle(task[<<r, s>>].value[i]) = ""

(* C9: fan-out fallback trigger.  Once the fan-out queries have settled,   *)
(* the fallback query has been issued (once) exactly if the deduplicated   *)
(* list of the fan-out results is empty; and an empty successful result    *)
(* is returned only after the fallback ran and returned nothing.           *)
FallbackTrigger ==
  \A r \in FanOuts :
    req[r].pc # "fanout" =>
      /\ FallbackIssued(r) <=> FanOutDedupEmpty(r)
      /\ FallbackIssued(r) =>
           Cardinality({c \in CallIds : call[c].pc # "idle"
                          /\ call[c].owner = <<r, BydjFallbackSlot>>}) = 1
      /\ ( req[r].response.status = 200
           /\ Len(req[r].response.body.tracks) = 0 )
         => /\ task[<<r, BydjFallbackSlot>>].pc = "fulfilled"
            /\ Len(task[<<r, BydjFallbackSlot>>].items) = 0

(* C10: fan-out fallback results are verbatim.  When a bydj request used   *)
(* the fallback query, the returned tracks are the first min(n, 12) of     *)
(* the fallback's n results in backend order, none removed.                *)
FallbackVerbatim ==
  \A r \in FanOuts :
    ( /\ req[r].response.status = 200
      /\ task[<<r, BydjFallbackSlot>>].pc = "fulfilled" )
    => IsTopOf(req[r].response.body.tracks,
               task[<<r, BydjFallbackSlot>>].items, FlatCap)

(***************************************************************************)
(* Properties of the faults.                                               *)
(***************************************************************************)
(* The requests to the staged endpoints.                                   *)
Staged == {r \in Reqs : req[r].kind \in {"therapy", "nostalgia", "vibe"}}

(* The primary and the fallback search of the stage request r is at (of    *)
(* the request itself, for /spotify/nostalgia and /spotify/vibe).          *)
PrimaryOf(r) ==
  <<r, IF req[r].kind = "therapy" THEN PrimarySlot(req[r].stage) ELSE 1>>

FallbackOf(r) ==
  <<r, IF req[r].kind = "therapy" THEN FallbackSlot(req[r].stage) ELSE 2>>

(* C11: SearchError in staged modes.  A staged request is answered with    *)
(* the server fault only if both the primary and the fallback query of     *)
(* the stage (or request) failed; a failure of the primary query alone     *)
(* does not fail the request.                                              *)
(* The credential exchanges made for request r that failed.                *)
AuthFaults(r) ==
  {c \in CallIds : call[c].pc = "failed" /\ call[c].owner \in TaskIds
                    /\ call[c].owner[1] = r}

StagedFaultNeedsBoth ==
  \A r \in Staged :
    ( req[r].response.status = 500 /\ AuthFaults(r) = {} ) =>
      /\ task[PrimaryOf(r)].pc = "rejected"
      /\ task[FallbackOf(r)].pc = "rejected"

(* Call c starts a credential exchange for request r in this step.         *)
StartsExchangeFor(c, r) ==
  /\ call[c].pc = "idle"
  /\ call'[c].pc = "exchange"
  /\ call'[c].owner \in TaskIds
  /\ call'[c].owner[1] = r

(* C12: AuthError is not retried within a request.  Once a credential      *)
(* exchange made for a request has failed, no further exchange is started  *)
(* for that request, and the request ends with the server fault.           *)
NoAuthRetry ==
  /\ [](\A r \in Reqs :
          ( AuthFaults(r) # {} /\ req[r].pc = "done" )
          => req[r].response.status = 500)
  /\ [][\A r \in Reqs, c \in CallIds :
          StartsExchangeFor(c, r) => AuthFaults(r) = {}]_vars

(***************************************************************************)
(* Properties of the order of the searches.                                *)
(***************************************************************************)
(* Search t has been started and has not settled.                          *)
Outstanding(t) == task[t].pc \in {"token", "search"}

(* Stage n of therapy request r has completed: its primary search found    *)
(* something, or found nothing and its fallback search was fulfilled.      *)
StageCompleted(r, n) ==
  /\ Fulfilled(r, PrimarySlot(n))
  /\ Len(Value(r, PrimarySlot(n))) = 0 => Fulfilled(r, FallbackSlot(n))
  /\ Len(req[r].stages) >= n

(* Stage n of therapy request r has failed.                                *)
StageFailed(r, n) ==
  \/ task[<<r, PrimarySlot(n)>>].pc = "rejected"
  \/ task[<<r, FallbackSlot(n)>>].pc = "rejected"

(* C13: staged execution is strictly sequential.  In a therapy request at  *)
(* most one search is outstanding at any time; the fallback query of a     *)
(* stage is issued only after its primary query has settled; the first     *)
(* query of stage n + 1 is issued only after stage n has completed; and    *)
(* after a stage has failed no query of a later stage is issued.           *)
StagedSequential ==
  \A r \in Reqs :
    req[r].kind = "therapy" =>
      /\ Cardinality({s \in Slots : Outstanding(<<r, s>>)}) <= 1
      /\ \A n \in 1..NumStages :
           /\ task[<<r, FallbackSlot(n)>>].pc # "idle"
                => Settled(<<r, PrimarySlot(n)>>)
           /\ ( n < NumStages /\ task[<<r, PrimarySlot(n + 1)>>].pc # "idle" )
                => StageCompleted(r, n)
           /\ StageFailed(r, n) =>
                \A m \in (n + 1)..NumStages :
                   /\ task[<<r, PrimarySlot(m)>>].pc = "idle"
                   /\ task[<<r, FallbackSlot(m)>>].pc = "idle"

(* A therapy request ran stage 1 through its fallback query, failed in     *)
(* the fallback query of stage 2, and was answered with the server fault   *)
(* without a query of stage 3.                                             *)
StagedSequentialWitness ==
  \E r \in Reqs :
    /\ req[r].kind = "therapy"
    /\ req[r].response.status = 500
    /\ Fulfilled(r, FallbackSlot(1)) /\ StageCompleted(r, 1)
    /\ Fulfilled(r, PrimarySlot(2))
    /\ task[<<r, FallbackSlot(2)>>].pc = "rejected"
    /\ task[<<r, PrimarySlot(3)>>].pc = "idle"

(* The invocations of getSpotifyAccessToken() made for request r: one by   *)
(* every search the request has started.                                   *)
CallsOf(r) ==
  {c \in CallIds : call[c].pc # "idle" /\ call[c].owner \in TaskIds
                    /\ call[c].owner[1] = r}

(* Those made for the search s of the request.                             *)
CallsOfSlot(r, s) == {c \in CallsOf(r) : call[c].owner[2] = s}

(* The searches one request of a kind may make.                            *)
SearchBudget(kind) ==
  IF kind = "therapy" THEN 6
  ELSE IF kind = "bydj" THEN 5
  ELSE 2

(* The fallback search of a request that has a single one.                 *)
FlatFallback(r) ==
  <<r, IF req[r].kind = "bydj" THEN BydjFallbackSlot ELSE 2>>

(* C14: fallback never recurses.  A request makes at most 6 searches in    *)
(* /spotify/therapy (a primary and a fallback per stage), at most 2 in     *)
(* /spotify/nostalgia and /spotify/vibe and at most 5 in /spotify/bydj;    *)
(* no primary or fallback query is issued twice; and once the fallback of  *)
(* a request (of a stage) has settled, empty or failed included, no other  *)
(* search of the request (of the stage) is started.                        *)
FallbackOnce ==
  /\ [](\A r \in Reqs :
          req[r].pc # "idle" =>
            /\ Cardinality(CallsOf(r)) <= SearchBudget(req[r].kind)
            /\ \A s \in Slots : Cardinality(CallsOfSlot(r, s)) <= 1
            /\ req[r].kind \in {"nostalgia", "vibe"} =>
                  \A s \in Slots : CallsOfSlot(r, s) # {} => s \in {1, 2}
            /\ req[r].kind # "therapy" /\ Settled(FlatFallback(r)) =>
                  \A s \in Slots : ~Outstanding(<<r, s>>))
  /\ [][\A r \in Reqs, c \in CallIds :
          ( call[c].pc = "idle" /\ call'[c].pc # "idle"
            /\ call'[c].owner \in TaskIds /\ call'[c].owner[1] = r )
          => /\ task[call'[c].owner].pc = "idle"
             /\ req[r].kind \in {"nostalgia", "vibe", "bydj"}
                  => task[FlatFallback(r)].pc = "idle"
             /\ req[r].kind = "therapy" =>
                  \A n \in 1..NumStages :
                     call'[c].owner[2] \in {PrimarySlot(n), FallbackSlot(n)}
                     => task[<<r, FallbackSlot(n)>>].pc = "idle"]_vars

(* A nostalgia request whose primary and fallback queries both found       *)
(* nothing was answered with no track after two searches.                  *)
FallbackOnceWitness ==
  \E r \in Reqs :
    /\ req[r].kind = "nostalgia"
    /\ req[r].response.status = 200
    /\ Fulfilled(r, 1) /\ Fulfilled(r, 2)
    /\ Len(Value(r, 2)) = 0
    /\ Len(req[r].response.body.tracks) = 0
    /\ Cardinality(CallsOf(r)) = 2

(***************************************************************************)
(* Properties of the truncation.                                           *)
(***************************************************************************)
(* out is the first min(Len(src), cap) elements of src, in order.          *)
IsHeadOf(out, src, cap) ==
  /\ Len(out) = (IF Len(src) < cap THEN Len(src) ELSE cap)
  /\ \A i \in 1..Len(out) : out[i] = src[i]

(* The result a stage or request goes on with: that of the fallback query  *)
(* where the primary query found nothing.                                  *)
Substituted(prim, fall) ==
  IF Len(prim.value) = 0 THEN fall.value ELSE prim.value

(* The fallback query was issued exactly if the whole primary result was   *)
(* empty.                                                                  *)
DecidedOnWhole(prim, fall) == (fall.pc # "idle") <=> (Len(prim.value) = 0)

(* f, with keys kf, is the first min(n, cap) of the n tracks that          *)
(* deduplication leaves of m, with keys km: the first occurrences of       *)
(* min(n, cap) distinct non-blank keys, none of an earlier key left out.   *)
HeadOfFirsts(f, m, kf, km, pos, cap) ==
  LET n == Cardinality({km[p] : p \in 1..Len(m)} \ {""})
  IN /\ KeepsFirsts(f, m, kf, pos)
     /\ Len(f) = (IF n < cap THEN n ELSE cap)
     /\ Len(f) > 0 =>
          \A p \in 1..pos[Len(f)] :
             km[p] # "" => \E i \in 1..Len(f) : kf[i] = km[p]

IsHeadOfDedup(f, m, kf, km, cap) ==
  HeadOfFirsts(f, m, kf, km, [i \in 1..Len(f) |-> FirstPos(km, kf[i])], cap)

(* C15: truncation after fallback.  Every successful response carries the  *)
(* first min(n, cap) elements, in order, of the n-element sequence left    *)
(* after fallback substitution (and after deduplication in /spotify/bydj), *)
(* with cap 6 per stage in /spotify/therapy and 12 elsewhere; and the      *)
(* fallback is decided on the whole result, not on a truncated one.        *)
TruncationLast ==
  \A r \in Reqs :
    req[r].response.status = 200 =>
      LET body == req[r].response.body
      IN IF req[r].kind = "therapy"
         THEN \A n \in 1..NumStages :
                /\ IsHeadOf(req[r].stages[n],
                            Substituted(task[<<r, PrimarySlot(n)>>],
                                        task[<<r, FallbackSlot(n)>>]), 6)
                /\ DecidedOnWhole(task[<<r, PrimarySlot(n)>>],
                                  task[<<r, FallbackSlot(n)>>])
                /\ <<body.stage1, body.stage2, body.stage3>>[n]
                     = req[r].stages[n]
         ELSE IF req[r].kind = "bydj"
         THEN LET fb == task[<<r, BydjFallbackSlot>>]
                  m == IF fb.pc = "idle" THEN req[r].combined ELSE fb.value
              IN /\ IsHeadOfDedup(body.tracks, m, NormTitles(body.tracks),
                                  NormTitles(m), 12)
                 /\ (fb.pc # "idle") <=> IsMergeOf(<<>>, r)
                 /\ fb.pc = "idle" => IsMergeOf(m, r)
         ELSE /\ IsHeadOf(body.tracks,
                          Substituted(task[<<r, 1>>], task[<<r, 2>>]), 12)
              /\ DecidedOnWhole(task[<<r, 1>>], task[<<r, 2>>])

(* A bydj request whose merged results hold 20 different non-blank titles  *)
(* (and a blank and repeats) was answered with the first 12 of them.       *)
TruncationLastWitness ==
  \E r \in Reqs :
    /\ req[r].kind = "bydj"
    /\ req[r].response.status = 200
    /\ Cardinality({NormTitle(req[r].combined[p]) :
                      p \in 1..Len(req[r].combined)} \ {""}) = 20
    /\ \E p \in 1..Len(req[r].combined) : NormTitle(req[r].combined[p]) = ""
    /\ Len(req[r].combined) > 20
    /\ Len(req[r].response.body.tracks) = 12
    /\ req[r].response.body.tracks[1].title # "Song A"

(***************************************************************************)
(* Properties of the validation.                                           *)
(***************************************************************************)
(* The body of request r lacks a parameter its mode requires.              *)
MissingParam(r) ==
  LET b == req[r].body
  IN IF req[r].kind = "therapy" THEN ~Truthy(b.mood)
     ELSE IF req[r].kind = "nostalgia"
       THEN \/ ~Truthy(b.mode)
            \/ b.mode = "year" /\ ~Truthy(b.year)
            \/ b.mode = "prompt" /\ ~Truthy(b.prompt)
     ELSE FALSE

(* C16: validation faults are immediate and side-effect free.  A therapy   *)
(* request without mood, and a nostalgia request without mode, with mode   *)
(* "year" without year or with mode "prompt" without prompt, is answered   *)
(* with the caller-input fault in the step in which it arrives; no         *)
(* credential exchange and no search is made for it, and the cached token  *)
(* and its expiry are left as they were.                                   *)
ValidationImmediate ==
  /\ [](\A r \in Reqs :
          ( req[r].pc # "idle" /\ MissingParam(r) ) =>
             /\ req[r].pc = "done"
             /\ req[r].response.status = 400
             /\ CallsOf(r) = {}
             /\ \A s \in Slots : task[<<r, s>>].pc = "idle")
  /\ [][\A r \in Reqs :
          ( req[r].pc = "idle" /\ req'[r].pc # "idle" /\ MissingParam(r)' )
          => UNCHANGED <<spotifyAccessToken, spotifyTokenExpiresAt,
                         numExchanges, writes, call, task>>]_vars

(* A nostalgia request with mode "year" and no year was answered with the  *)
(* caller-input fault while a token was cached and a search of another     *)
(* request was in flight.                                                  *)
ValidationImmediateWitness ==
  \E r \in Reqs :
    /\ req[r].kind = "nostalgia"
    /\ req[r].body.mode = "year"
    /\ req[r].response.status = 400
    /\ spotifyAccessToken # Null
    /\ \E t \in TaskIds : t[1] # r /\ Outstanding(t)

(***************************************************************************)
(* Properties of the responses.                                            *)
(***************************************************************************)
(* A fault of request r that its handler does not tolerate: any failed     *)
(* search of a staged request, a failed fallback search of a bydj request. *)
Untolerated(r) ==
  IF req[r].kind = "bydj" THEN task[<<r, BydjFallbackSlot>>].pc = "rejected"
  ELSE \E s \in Slots : task[<<r, s>>].pc = "rejected"

(* C17: every request is answered exactly once.  Provided the external     *)
(* calls made for it settle, a request that has arrived is eventually      *)
(* answered; it is never answered twice and its response never changes;    *)
(* the response is a success, a caller-input fault or the server fault,    *)
(* and it is the server fault exactly if a fault the handler does not      *)
(* tolerate occurred.                                                      *)
AnsweredOnce ==
  /\ \A r \in Reqs :
        (req[r].pc # "idle") ~> (req[r].pc = "done" /\ req[r].sent = 1)
  /\ [](\A r \in Reqs :
          /\ req[r].sent <= 1
          /\ req[r].sent = 1 <=> req[r].response.status # 0
          /\ req[r].pc = "done" =>
                /\ req[r].sent = 1
                /\ req[r].response.status \in {200, 400, 500}
                /\ req[r].response.status = 500 <=> Untolerated(r)
                /\ req[r].response.status = 500 =>
                      req[r].response.body = [error |-> "Server error"])
  /\ [][\A r \in Reqs :
          req[r].sent = 1 => req'[r].response = req[r].response]_vars

(* A bydj request all of whose fan-out searches failed, and whose fallback *)
(* search failed too, was answered once, with the server fault.            *)
AnsweredOnceWitness ==
  \E r \in Reqs :
    /\ req[r].kind = "bydj"
    /\ Len(req[r].queries) = 4
    /\ \A s \in 1..4 : task[<<r, s>>].pc = "rejected"
    /\ task[<<r, BydjFallbackSlot>>].pc = "rejected"
    /\ req[r].pc = "done"
    /\ req[r].sent = 1
    /\ req[r].response.status = 500

(***************************************************************************)
(* Properties of concurrent requests.                                      *)
(***************************************************************************)
(* The calls that went to the token service, each with its own exchange.   *)
OwnExchanges ==
  /\ \A c \in Misses : call[c].xid \in 1..numExchanges
  /\ \A c, d \in Misses : c # d => call[c].xid # call[d].xid
  /\ Cardinality(Misses) = numExchanges

(* C18: isolation of a hung call.  Whether or not the external calls of    *)
(* request 1 ever settle, request 2, whose own calls settle, is answered;  *)
(* and every getSpotifyAccessToken() that misses the cache performs an     *)
(* exchange of its own, whatever exchanges are in flight.                  *)
HungIsolated ==
  /\ (req[2].pc # "idle") ~> (req[2].pc = "done" /\ req[2].sent = 1)
  /\ []OwnExchanges

(* Request 2 was answered with tracks, with a token from its own exchange, *)
(* while the exchange that request 1 had started before was still in       *)
(* flight.                                                                 *)
HungIsolatedWitness ==
  /\ req[2].response.status = 200
  /\ req[1].pc = "primary"
  /\ \E c, d \in CallIds :
       /\ call[c].owner = <<1, 1>> /\ call[c].pc = "exchange"
       /\ call[d].owner[1] = 2 /\ call[d].pc = "returned" /\ ~call[d].hit
       /\ c < d

(* Time enough passes for any cached token to expire.                      *)
LongSteps == {2 * MsPerSec}

(***************************************************************************)
(* One request to /spotify/therapy.                                        *)
(***************************************************************************)
NextTherapy ==
  \/ \E b \in TherapyBodies : TherapyRequest(1, b)
  \/ TherapyPrimary(1)
  \/ TherapyFallback(1)
  \/ \E c \in CallIds, e \in Lifetimes : ExchangeOk(c, e)
  \/ \E c \in CallIds : ExchangeFail(c)
  \/ \E t \in TaskIds, items \in Catalog : SearchOk(t, items)
  \/ \E t \in TaskIds : SearchFail(t)
  \/ \E d \in LongSteps : Advance(d)

SpecTherapy == Init /\ [][NextTherapy]_vars

(***************************************************************************)
(* One request to one of the staged endpoints: /spotify/therapy,           *)
(* /spotify/nostalgia or /spotify/vibe.                                    *)
(***************************************************************************)
NextStaged ==
  \/ \E b \in TherapyBodies : TherapyRequest(1, b)
  \/ TherapyPrimary(1)
  \/ TherapyFallback(1)
  \/ \E b \in NostalgiaBodies : NostalgiaRequest(1, b)
  \/ NostalgiaPrimary(1)
  \/ NostalgiaFallback(1)
  \/ \E b \in VibeBodies : VibeRequest(1, b)
  \/ VibePrimary(1)
  \/ VibeFallback(1)
  \/ \E c \in CallIds, e \in Lifetimes : ExchangeOk(c, e)
  \/ \E c \in CallIds : ExchangeFail(c)
  \/ \E t \in TaskIds, items \in Catalog : SearchOk(t, items)
  \/ \E t \in TaskIds : SearchFail(t)
  \/ \E d \in LongSteps : Advance(d)

SpecStaged == Init /\ [][NextStaged]_vars

(* The token service grants every token the same lifetime.                 *)
OneLifetime == {1}

(***************************************************************************)
(* One request to /spotify/bydj.                                           *)
(***************************************************************************)
NextBydj ==
  \/ \E b \in BydjBodies : BydjRequest(1, b)
  \/ BydjSettled(1)
  \/ BydjFallback(1)
  \/ \E c \in CallIds, e \in OneLifetime : ExchangeOk(c, e)
  \/ \E c \in CallIds : ExchangeFail(c)
  \/ \E t \in TaskIds, items \in Catalog : SearchOk(t, items)
  \/ \E t \in TaskIds : SearchFail(t)

SpecBydj == Init /\ [][NextBydj]_vars

(* The item lists of the catalog that tell an empty result, a long one     *)
(* and one with repeats and blanks apart.                                  *)
ShortCatalog == {NoHits, LongHits, MixedHits}

(***************************************************************************)
(* One request to any of the four endpoints.                               *)
(***************************************************************************)
NextEndpoints ==
  \/ \E b \in TherapyBodies : TherapyRequest(1, b)
  \/ TherapyPrimary(1)
  \/ TherapyFallback(1)
  \/ \E b \in NostalgiaBodies : NostalgiaRequest(1, b)
  \/ NostalgiaPrimary(1)
  \/ NostalgiaFallback(1)
  \/ \E b \in VibeBodies : VibeRequest(1, b)
  \/ VibePrimary(1)
  \/ VibeFallback(1)
  \/ \E b \in BydjBodies : BydjRequest(1, b)
  \/ BydjSettled(1)
  \/ BydjFallback(1)
  \/ \E c \in CallIds, e \in OneLifetime : ExchangeOk(c, e)
  \/ \E c \in CallIds : ExchangeFail(c)
  \/ \E t \in TaskIds, items \in ShortCatalog : SearchOk(t, items)
  \/ \E t \in TaskIds : SearchFail(t)

SpecEndpoints == Init /\ [][NextEndpoints]_vars

(* The bodies that lack the mood /spotify/therapy requires.                *)
MoodlessBodies == {b \in TherapyBodies : ~Truthy(b.mood)}

(* The bodies that lack the mode /spotify/nostalgia requires, or the year  *)
(* or prompt their mode requires.                                          *)
IncompleteBodies ==
  {b \in NostalgiaBodies :
     \/ ~Truthy(b.mode)
     \/ b.mode = "year" /\ ~Truthy(b.year)
     \/ b.mode = "prompt" /\ ~Truthy(b.prompt)}

(***************************************************************************)
(* A request to /spotify/nostalgia and, at any time before, during or      *)
(* after it, a second request to /spotify/therapy or /spotify/nostalgia    *)
(* that lacks a required parameter.                                        *)
(***************************************************************************)
NextValidation ==
  \/ \E b \in NostalgiaBodies : NostalgiaRequest(1, b)
  \/ NostalgiaPrimary(1)
  \/ NostalgiaFallback(1)
  \/ \E b \in MoodlessBodies : TherapyRequest(2, b)
  \/ \E b \in IncompleteBodies : NostalgiaRequest(2, b)
  \/ \E c \in CallIds, e \in OneLifetime : ExchangeOk(c, e)
  \/ \E c \in CallIds : ExchangeFail(c)
  \/ \E t \in TaskIds, items \in Catalog : SearchOk(t, items)
  \/ \E t \in TaskIds : SearchFail(t)
  \/ \E d \in TickSteps : Advance(d)

SpecValidation == Init /\ [][NextValidation]_vars

(* Short item lists: none, and three with a repeated title.                *)
BriefCatalog == {NoHits, ExampleHits}

(***************************************************************************)
(* One request to any of the four endpoints, where Node runs every         *)
(* continuation that is ready and every external call settles.             *)
(***************************************************************************)
(* The continuations of the handler of request r.                          *)
Continue(r) ==
  \/ TherapyPrimary(r)
  \/ TherapyFallback(r)
  \/ NostalgiaPrimary(r)
  \/ NostalgiaFallback(r)
  \/ VibePrimary(r)
  \/ VibeFallback(r)
  \/ BydjSettled(r)
  \/ BydjFallback(r)

(* An external call made for request r settles.                            *)
Settle(r) ==
  \/ \E c \in CallIds, e \in OneLifetime :
        call[c].owner[1] = r /\ ExchangeOk(c, e)
  \/ \E c \in CallIds : call[c].owner[1] = r /\ ExchangeFail(c)
  \/ \E t \in TaskIds, items \in BriefCatalog :
        t[1] = r /\ SearchOk(t, items)
  \/ \E t \in TaskIds : t[1] = r /\ SearchFail(t)

NextLive ==
  \/ \E b \in TherapyBodies : TherapyRequest(1, b)
  \/ \E b \in NostalgiaBodies : NostalgiaRequest(1, b)
  \/ \E b \in VibeBodies : VibeRequest(1, b)
  \/ \E b \in BydjBodies : BydjRequest(1, b)
  \/ Continue(1)
  \/ Settle(1)

SpecLive ==
  /\ Init /\ [][NextLive]_vars
  /\ WF_vars(Continue(1))
  /\ WF_vars(Settle(1))

(* One request body for each of two endpoints.                             *)
ChildhoodBody == [NoBody EXCEPT !.mode = "childhood"]
NightDriveBody == [NoBody EXCEPT !.vibe = "night_drive"]

(***************************************************************************)
(* Two concurrent requests: request 1 to /spotify/nostalgia, whose         *)
(* external calls may never settle, and request 2 to /spotify/nostalgia or *)
(* /spotify/vibe, whose external calls do settle.                          *)
(***************************************************************************)
(* The continuations of the handlers of these two endpoints.               *)
ContinueSearch(r) ==
  \/ NostalgiaPrimary(r)
  \/ NostalgiaFallback(r)
  \/ VibePrimary(r)
  \/ VibeFallback(r)

NextHung ==
  \/ NostalgiaRequest(1, ChildhoodBody)
  \/ NostalgiaRequest(2, ChildhoodBody)
  \/ VibeRequest(2, NightDriveBody)
  \/ ContinueSearch(1)
  \/ ContinueSearch(2)
  \/ Settle(1)
  \/ Settle(2)

SpecHung ==
  /\ Init /\ [][NextHung]_vars
  /\ WF_vars(ContinueSearch(1))
  /\ WF_vars(ContinueSearch(2))
  /\ WF_vars(Settle(2))

====
